---------------------------- MODULE Spec2Model ----------------------------
(***************************************************************************)
(* A model of brainglobe-workflows' glue code:                             *)
(*   - utils.config_parser   (the CLI argument resolver, on argparse)      *)
(*   - utils.setup_logger    (the module logger and its console handler)   *)
(*   - brainmapper.analyse.run (Transform, Summarise, Export)              *)
(*   - the Config Loader and the Detect stage, which live in               *)
(*     cellfinder_core.py and are modelled from the specification.         *)
(*                                                                         *)
(* Command-line tokens, paths given on the command line and default paths  *)
(* are sequences of one-character strings, so that argparse's tests on     *)
(* the text of a token (first character, '=', ' ', negative numbers,       *)
(* prefixes of option strings) are computed and not assumed.               *)
(***************************************************************************)
EXTENDS Integers, Sequences, FiniteSets, TLC

VARIABLES
    argv,            \* config_parser: the argument list
    default_config,  \* config_parser: the caller's default
    cli,             \* config_parser: what the call produced
    loggerDict,      \* logging: the loggers that exist, by name
    returned,        \* setup_logger: the logger each call returned, in order
    root,            \* logging: the root logger (its level and its handlers)
    cfg_in,          \* Config Loader: the JSON document and the environment
    config,          \* Config Loader: the configuration object, once returned
    dirs,            \* filesystem: the directories that exist
    fs,              \* filesystem: size of every file (Absent when there is none)
    pc,              \* where the workflow process is
    err,             \* the error that ended the run, if any
    cells,           \* the cell records the detection stage returned
    points,          \* run(): the array built from the cells
    transformed_cells,     \* run(): first result of the transform stage
    points_out_of_bounds,  \* run(): second result of the transform stage
    invocations,     \* per external stage, the arguments of each invocation
    trace            \* log records and stage calls/returns/raises, in order

cliVars == <<argv, default_config, cli>>
logVars == <<loggerDict, returned, root>>
runVars == <<cfg_in, config, dirs, fs, pc, err, cells, points,
             transformed_cells, points_out_of_bounds, invocations, trace>>

vars == <<argv, default_config, cli, loggerDict, returned, root, cfg_in, config,
          dirs, fs, pc, err, cells, points, transformed_cells,
          points_out_of_bounds, invocations, trace>>

-----------------------------------------------------------------------------
(* Bounds *)

\* longest argument list given to config_parser
MaxArgs == 3

\* most calls of setup_logger in one process
MaxSetupCalls == 3

\* most signal files and background files a configuration lists
MaxSignalFiles == 2
MaxBackgroundFiles == 1

\* most cells the detection stage returns
MaxCells == 2

-----------------------------------------------------------------------------
(* Text helpers *)

\* A character outside ASCII is written as its code point ("U+0661" is
\* ARABIC-INDIC DIGIT ONE); such a string stands for one character of the text.

\* the characters \d matches in a str pattern: the decimal digits of Unicode
\* (category Nd, 660 characters in the Unicode 14 tables of Python 3.11)
Digits ==
    {"0", "1", "2", "3", "4", "5", "6", "7", "8", "9",
     "U+0660", "U+0661", "U+0662", "U+0663", "U+0664", "U+0665", "U+0666",
     "U+0667", "U+0668", "U+0669", "U+06F0", "U+06F1", "U+06F2", "U+06F3",
     "U+06F4", "U+06F5", "U+06F6", "U+06F7", "U+06F8", "U+06F9", "U+07C0",
     "U+07C1", "U+07C2", "U+07C3", "U+07C4", "U+07C5", "U+07C6", "U+07C7",
     "U+07C8", "U+07C9", "U+0966", "U+0967", "U+0968", "U+0969", "U+096A",
     "U+096B", "U+096C", "U+096D", "U+096E", "U+096F", "U+09E6", "U+09E7",
     "U+09E8", "U+09E9", "U+09EA", "U+09EB", "U+09EC", "U+09ED", "U+09EE",
     "U+09EF", "U+0A66", "U+0A67", "U+0A68", "U+0A69", "U+0A6A", "U+0A6B",
     "U+0A6C", "U+0A6D", "U+0A6E", "U+0A6F", "U+0AE6", "U+0AE7", "U+0AE8",
     "U+0AE9", "U+0AEA", "U+0AEB", "U+0AEC", "U+0AED", "U+0AEE", "U+0AEF",
     "U+0B66", "U+0B67", "U+0B68", "U+0B69", "U+0B6A", "U+0B6B", "U+0B6C",
     "U+0B6D", "U+0B6E", "U+0B6F", "U+0BE6", "U+0BE7", "U+0BE8", "U+0BE9",
     "U+0BEA", "U+0BEB", "U+0BEC", "U+0BED", "U+0BEE", "U+0BEF", "U+0C66",
     "U+0C67", "U+0C68", "U+0C69", "U+0C6A", "U+0C6B", "U+0C6C", "U+0C6D",
     "U+0C6E", "U+0C6F", "U+0CE6", "U+0CE7", "U+0CE8", "U+0CE9", "U+0CEA",
     "U+0CEB", "U+0CEC", "U+0CED", "U+0CEE", "U+0CEF", "U+0D66", "U+0D67",
     "U+0D68", "U+0D69", "U+0D6A", "U+0D6B", "U+0D6C", "U+0D6D", "U+0D6E",
     "U+0D6F", "U+0DE6", "U+0DE7", "U+0DE8", "U+0DE9", "U+0DEA", "U+0DEB",
     "U+0DEC", "U+0DED", "U+0DEE", "U+0DEF", "U+0E50", "U+0E51", "U+0E52",
     "U+0E53", "U+0E54", "U+0E55", "U+0E56", "U+0E57", "U+0E58", "U+0E59",
     "U+0ED0", "U+0ED1", "U+0ED2", "U+0ED3", "U+0ED4", "U+0ED5", "U+0ED6",
     "U+0ED7", "U+0ED8", "U+0ED9", "U+0F20", "U+0F21", "U+0F22", "U+0F23",
     "U+0F24", "U+0F25", "U+0F26", "U+0F27", "U+0F28", "U+0F29", "U+1040",
     "U+1041", "U+1042", "U+1043", "U+1044", "U+1045", "U+1046", "U+1047",
     "U+1048", "U+1049", "U+1090", "U+1091", "U+1092", "U+1093", "U+1094",
     "U+1095", "U+1096", "U+1097", "U+1098", "U+1099", "U+17E0", "U+17E1",
     "U+17E2", "U+17E3", "U+17E4", "U+17E5", "U+17E6", "U+17E7", "U+17E8",
     "U+17E9", "U+1810", "U+1811", "U+1812", "U+1813", "U+1814", "U+1815",
     "U+1816", "U+1817", "U+1818", "U+1819", "U+1946", "U+1947", "U+1948",
     "U+1949", "U+194A", "U+194B", "U+194C", "U+194D", "U+194E", "U+194F",
     "U+19D0", "U+19D1", "U+19D2", "U+19D3", "U+19D4", "U+19D5", "U+19D6",
     "U+19D7", "U+19D8", "U+19D9", "U+1A80", "U+1A81", "U+1A82", "U+1A83",
     "U+1A84", "U+1A85", "U+1A86", "U+1A87", "U+1A88", "U+1A89", "U+1A90",
     "U+1A91", "U+1A92", "U+1A93", "U+1A94", "U+1A95", "U+1A96", "U+1A97",
     "U+1A98", "U+1A99", "U+1B50", "U+1B51", "U+1B52", "U+1B53", "U+1B54",
     "U+1B55", "U+1B56", "U+1B57", "U+1B58", "U+1B59", "U+1BB0", "U+1BB1",
     "U+1BB2", "U+1BB3", "U+1BB4", "U+1BB5", "U+1BB6", "U+1BB7", "U+1BB8",
     "U+1BB9", "U+1C40", "U+1C41", "U+1C42", "U+1C43", "U+1C44", "U+1C45",
     "U+1C46", "U+1C47", "U+1C48", "U+1C49", "U+1C50", "U+1C51", "U+1C52",
     "U+1C53", "U+1C54", "U+1C55", "U+1C56", "U+1C57", "U+1C58", "U+1C59",
     "U+A620", "U+A621", "U+A622", "U+A623", "U+A624", "U+A625", "U+A626",
     "U+A627", "U+A628", "U+A629", "U+A8D0", "U+A8D1", "U+A8D2", "U+A8D3",
     "U+A8D4", "U+A8D5", "U+A8D6", "U+A8D7", "U+A8D8", "U+A8D9", "U+A900",
     "U+A901", "U+A902", "U+A903", "U+A904", "U+A905", "U+A906", "U+A907",
     "U+A908", "U+A909", "U+A9D0", "U+A9D1", "U+A9D2", "U+A9D3", "U+A9D4",
     "U+A9D5", "U+A9D6", "U+A9D7", "U+A9D8", "U+A9D9", "U+A9F0", "U+A9F1",
     "U+A9F2", "U+A9F3", "U+A9F4", "U+A9F5", "U+A9F6", "U+A9F7", "U+A9F8",
     "U+A9F9", "U+AA50", "U+AA51", "U+AA52", "U+AA53", "U+AA54", "U+AA55",
     "U+AA56", "U+AA57", "U+AA58", "U+AA59", "U+ABF0", "U+ABF1", "U+ABF2",
     "U+ABF3", "U+ABF4", "U+ABF5", "U+ABF6", "U+ABF7", "U+ABF8", "U+ABF9",
     "U+FF10", "U+FF11", "U+FF12", "U+FF13", "U+FF14", "U+FF15", "U+FF16",
     "U+FF17", "U+FF18", "U+FF19", "U+104A0", "U+104A1", "U+104A2",
     "U+104A3", "U+104A4", "U+104A5", "U+104A6", "U+104A7", "U+104A8",
     "U+104A9", "U+10D30", "U+10D31", "U+10D32", "U+10D33", "U+10D34",
     "U+10D35", "U+10D36", "U+10D37", "U+10D38", "U+10D39", "U+11066",
     "U+11067", "U+11068", "U+11069", "U+1106A", "U+1106B", "U+1106C",
     "U+1106D", "U+1106E", "U+1106F", "U+110F0", "U+110F1", "U+110F2",
     "U+110F3", "U+110F4", "U+110F5", "U+110F6", "U+110F7", "U+110F8",
     "U+110F9", "U+11136", "U+11137", "U+11138", "U+11139", "U+1113A",
     "U+1113B", "U+1113C", "U+1113D", "U+1113E", "U+1113F", "U+111D0",
     "U+111D1", "U+111D2", "U+111D3", "U+111D4", "U+111D5", "U+111D6",
     "U+111D7", "U+111D8", "U+111D9", "U+112F0", "U+112F1", "U+112F2",
     "U+112F3", "U+112F4", "U+112F5", "U+112F6", "U+112F7", "U+112F8",
     "U+112F9", "U+11450", "U+11451", "U+11452", "U+11453", "U+11454",
     "U+11455", "U+11456", "U+11457", "U+11458", "U+11459", "U+114D0",
     "U+114D1", "U+114D2", "U+114D3", "U+114D4", "U+114D5", "U+114D6",
     "U+114D7", "U+114D8", "U+114D9", "U+11650", "U+11651", "U+11652",
     "U+11653", "U+11654", "U+11655", "U+11656", "U+11657", "U+11658",
     "U+11659", "U+116C0", "U+116C1", "U+116C2", "U+116C3", "U+116C4",
     "U+116C5", "U+116C6", "U+116C7", "U+116C8", "U+116C9", "U+11730",
     "U+11731", "U+11732", "U+11733", "U+11734", "U+11735", "U+11736",
     "U+11737", "U+11738", "U+11739", "U+118E0", "U+118E1", "U+118E2",
     "U+118E3", "U+118E4", "U+118E5", "U+118E6", "U+118E7", "U+118E8",
     "U+118E9", "U+11950", "U+11951", "U+11952", "U+11953", "U+11954",
     "U+11955", "U+11956", "U+11957", "U+11958", "U+11959", "U+11C50",
     "U+11C51", "U+11C52", "U+11C53", "U+11C54", "U+11C55", "U+11C56",
     "U+11C57", "U+11C58", "U+11C59", "U+11D50", "U+11D51", "U+11D52",
     "U+11D53", "U+11D54", "U+11D55", "U+11D56", "U+11D57", "U+11D58",
     "U+11D59", "U+11DA0", "U+11DA1", "U+11DA2", "U+11DA3", "U+11DA4",
     "U+11DA5", "U+11DA6", "U+11DA7", "U+11DA8", "U+11DA9", "U+16A60",
     "U+16A61", "U+16A62", "U+16A63", "U+16A64", "U+16A65", "U+16A66",
     "U+16A67", "U+16A68", "U+16A69", "U+16AC0", "U+16AC1", "U+16AC2",
     "U+16AC3", "U+16AC4", "U+16AC5", "U+16AC6", "U+16AC7", "U+16AC8",
     "U+16AC9", "U+16B50", "U+16B51", "U+16B52", "U+16B53", "U+16B54",
     "U+16B55", "U+16B56", "U+16B57", "U+16B58", "U+16B59", "U+1D7CE",
     "U+1D7CF", "U+1D7D0", "U+1D7D1", "U+1D7D2", "U+1D7D3", "U+1D7D4",
     "U+1D7D5", "U+1D7D6", "U+1D7D7", "U+1D7D8", "U+1D7D9", "U+1D7DA",
     "U+1D7DB", "U+1D7DC", "U+1D7DD", "U+1D7DE", "U+1D7DF", "U+1D7E0",
     "U+1D7E1", "U+1D7E2", "U+1D7E3", "U+1D7E4", "U+1D7E5", "U+1D7E6",
     "U+1D7E7", "U+1D7E8", "U+1D7E9", "U+1D7EA", "U+1D7EB", "U+1D7EC",
     "U+1D7ED", "U+1D7EE", "U+1D7EF", "U+1D7F0", "U+1D7F1", "U+1D7F2",
     "U+1D7F3", "U+1D7F4", "U+1D7F5", "U+1D7F6", "U+1D7F7", "U+1D7F8",
     "U+1D7F9", "U+1D7FA", "U+1D7FB", "U+1D7FC", "U+1D7FD", "U+1D7FE",
     "U+1D7FF", "U+1E140", "U+1E141", "U+1E142", "U+1E143", "U+1E144",
     "U+1E145", "U+1E146", "U+1E147", "U+1E148", "U+1E149", "U+1E2F0",
     "U+1E2F1", "U+1E2F2", "U+1E2F3", "U+1E2F4", "U+1E2F5", "U+1E2F6",
     "U+1E2F7", "U+1E2F8", "U+1E2F9", "U+1E950", "U+1E951", "U+1E952",
     "U+1E953", "U+1E954", "U+1E955", "U+1E956", "U+1E957", "U+1E958",
     "U+1E959", "U+1FBF0", "U+1FBF1", "U+1FBF2", "U+1FBF3", "U+1FBF4",
     "U+1FBF5", "U+1FBF6", "U+1FBF7", "U+1FBF8", "U+1FBF9"}

\* str.startswith
StartsWith(s, p) == Len(p) <= Len(s) /\ SubSeq(s, 1, Len(p)) = p

\* ch in s
Contains(s, ch) == \E i \in 1..Len(s) : s[i] = ch

\* index of the first ch in s (0 when absent)
IndexOf(s, ch) ==
    IF Contains(s, ch)
    THEN CHOOSE i \in 1..Len(s) : s[i] = ch /\ \A j \in 1..(i - 1) : s[j] # ch
    ELSE 0

\* s.split(ch, 1)[0] and [1], for s containing ch
SplitHead(s, ch) == SubSeq(s, 1, IndexOf(s, ch) - 1)
SplitTail(s, ch) == SubSeq(s, IndexOf(s, ch) + 1, Len(s))

AllDigits(s) == \A i \in 1..Len(s) : s[i] \in Digits

\* where a regular expression's '$' can match at the end of s: the text up
\* to the end, and also the text up to one final newline
BeforeDollar(s) ==
    {s} \cup (IF Len(s) >= 1 /\ s[Len(s)] = "\n"
              THEN {SubSeq(s, 1, Len(s) - 1)}
              ELSE {})

\* \d+ over the whole of r
DigitRun(r) == Len(r) >= 1 /\ AllDigits(r)

\* argparse's _negative_number_matcher: '^-\d+$|^-\d*\.\d+$'
negative_number_matcher(s) ==
    \E t \in BeforeDollar(s) :
        /\ Len(t) >= 2
        /\ t[1] = "-"
        /\ LET r == SubSeq(t, 2, Len(t))
           IN  \/ DigitRun(r)
               \/ \E k \in 1..Len(r) :
                    /\ r[k] = "."
                    /\ AllDigits(SubSeq(r, 1, k - 1))
                    /\ DigitRun(SubSeq(r, k + 1, Len(r)))

-----------------------------------------------------------------------------
(* argparse, as config_parser sets it up: the automatic -h/--help action   *)
(* (nargs 0) and the -c/--config store action (nargs None, type str).      *)

OPT_h      == <<"-", "h">>
OPT_help   == <<"-", "-", "h", "e", "l", "p">>
OPT_c      == <<"-", "c">>
OPT_config == <<"-", "-", "c", "o", "n", "f", "i", "g">>
DoubleDash == <<"-", "-">>

\* parser._option_string_actions, in registration order
option_strings == <<OPT_h, OPT_help, OPT_c, OPT_config>>

IsOptionString(s) == \E i \in 1..Len(option_strings) : option_strings[i] = s

option_string_actions(os) ==
    IF os \in {OPT_h, OPT_help} THEN "help"
    ELSE IF os \in {OPT_c, OPT_config} THEN "config"
    ELSE "none"

\* values a namespace attribute can hold
StrValue(s)  == [t |-> "str", s |-> s]
PathValue(s) == [t |-> "Path", s |-> s]
EmptyList    == [t |-> "list", s |-> <<>>]
NoValue      == [t |-> "none", s |-> <<>>]

\* what _parse_optional returns: None (a positional), an option tuple, or
\* the 'ambiguous option' error
OptTuple(a, os, has, ex) ==
    [k |-> "O", action |-> a, option_string |-> os,
     has_explicit |-> has, explicit_arg |-> ex]
Positional == [k |-> "A", action |-> "none", option_string |-> <<>>,
               has_explicit |-> FALSE, explicit_arg |-> <<>>]
DashMark   == [k |-> "-", action |-> "none", option_string |-> <<>>,
               has_explicit |-> FALSE, explicit_arg |-> <<>>]
Ambiguous  == [k |-> "ambiguous", action |-> "none", option_string |-> <<>>,
               has_explicit |-> FALSE, explicit_arg |-> <<>>]

\* one pass of the loop of _get_option_tuples over option string number i
option_tuple_at(s, i) ==
    LET os == option_strings[i]
    IN  IF s[2] = "-"
        THEN LET has    == Contains(s, "=")
                 prefix == IF has THEN SplitHead(s, "=") ELSE s
                 ex     == IF has THEN SplitTail(s, "=") ELSE <<>>
             IN  IF StartsWith(os, prefix)
                 THEN <<OptTuple(option_string_actions(os), os, has, ex)>>
                 ELSE <<>>
        ELSE IF os = SubSeq(s, 1, 2)
             THEN <<OptTuple(option_string_actions(os), os, TRUE,
                             SubSeq(s, 3, Len(s)))>>
             ELSE IF StartsWith(os, s)
                  THEN <<OptTuple(option_string_actions(os), os, FALSE, <<>>)>>
                  ELSE <<>>

get_option_tuples(s) ==
    option_tuple_at(s, 1) \o option_tuple_at(s, 2)
        \o option_tuple_at(s, 3) \o option_tuple_at(s, 4)

parse_optional(s) ==
    IF s = <<>> THEN Positional
    ELSE IF s[1] # "-" THEN Positional
    ELSE IF IsOptionString(s)
         THEN OptTuple(option_string_actions(s), s, FALSE, <<>>)
    ELSE IF Len(s) = 1 THEN Positional
    ELSE IF Contains(s, "=") /\ IsOptionString(SplitHead(s, "="))
         THEN OptTuple(option_string_actions(SplitHead(s, "=")),
                       SplitHead(s, "="), TRUE, SplitTail(s, "="))
    ELSE LET ts == get_option_tuples(s)
         IN  IF Len(ts) > 1 THEN Ambiguous
             ELSE IF Len(ts) = 1 THEN ts[1]
             ELSE IF negative_number_matcher(s) THEN Positional
             ELSE IF Contains(s, " ") THEN Positional
             ELSE OptTuple("none", s, FALSE, <<>>)

\* option_string_indices and arg_strings_pattern together: the class of every
\* argument ('O', 'A', or '-' for the first '--', after which all are 'A')
classify(args) ==
    LET dd == IndexOf(args, DoubleDash)
    IN  [i \in 1..Len(args) |->
            IF dd # 0 /\ i = dd THEN DashMark
            ELSE IF dd # 0 /\ i > dd THEN Positional
            ELSE parse_optional(args[i])]

\* _match_argument on the optional's nargs pattern ('A' for -c, '' for -h);
\* -1 stands for 'no match'
match_argument(action, pat) ==
    IF action = "help" THEN 0
    ELSE IF Len(pat) >= 1 /\ pat[1] = "A" THEN 1
    ELSE -1

ConsumeError(reason) ==
    [k |-> "error", reason |-> reason, stop |-> 0, tuples |-> <<>>]

\* the 'while True' loop of consume_optional; opt is the option tuple
\* (action, option_string, explicit_arg) the loop is working on
RECURSIVE consume_loop(_, _, _, _, _)
consume_loop(args, cls, start_index, opt, action_tuples) ==
    IF opt.action = "none"
    THEN [k |-> "extra", reason |-> "", stop |-> start_index + 1, tuples |-> <<>>]
    ELSE IF opt.has_explicit
    THEN LET arg_count == match_argument(opt.action, <<"A">>)
         IN  IF /\ arg_count = 0
                /\ opt.option_string[2] # "-"
                /\ opt.explicit_arg # <<>>
             THEN LET new_os == <<opt.option_string[1], opt.explicit_arg[1]>>
                      rest   == Tail(opt.explicit_arg)
                  IN  IF IsOptionString(new_os)
                      THEN consume_loop(args, cls, start_index,
                                OptTuple(option_string_actions(new_os), new_os,
                                         rest # <<>>, rest),
                                Append(action_tuples,
                                       [action |-> opt.action, args |-> <<>>]))
                      ELSE ConsumeError("ignored explicit argument")
             ELSE IF arg_count = 1
             THEN [k |-> "ok", reason |-> "", stop |-> start_index + 1,
                   tuples |-> Append(action_tuples,
                                [action |-> opt.action,
                                 args |-> <<opt.explicit_arg>>])]
             ELSE ConsumeError("ignored explicit argument")
    ELSE LET start == start_index + 1
             selected == [j \in 1..(Len(args) - start_index) |->
                              cls[start_index + j].k]
             arg_count == match_argument(opt.action, selected)
         IN  IF arg_count = -1
             THEN ConsumeError("expected one argument")
             ELSE [k |-> "ok", reason |-> "", stop |-> start + arg_count,
                   tuples |-> Append(action_tuples,
                                [action |-> opt.action,
                                 args |-> SubSeq(args, start,
                                                 start + arg_count - 1)])]

consume_optional(args, cls, start_index) ==
    consume_loop(args, cls, start_index, cls[start_index], <<>>)

\* list.remove('--'): the first '--' dropped
RemoveDoubleDash(a) ==
    LET i == IndexOf(a, DoubleDash)
    IN  IF i = 0 THEN a ELSE SubSeq(a, 1, i - 1) \o SubSeq(a, i + 1, Len(a))

get_value_as_path(s) == PathValue(s)

\* _get_value with type=str: str(x) of a str is that str
get_value(s) == StrValue(s)

\* _get_values for nargs None
get_values(a) ==
    LET r == RemoveDoubleDash(a)
    IN  IF Len(r) = 1 THEN get_value(r[1]) ELSE EmptyList

\* the 'for action, args, option_string in action_tuples: take_action' loop:
\* the help action prints and exits with status 0, the store action sets config
RECURSIVE take_actions(_, _)
take_actions(tuples, ns) ==
    IF tuples = <<>> THEN [k |-> "ns", ns |-> ns]
    ELSE IF Head(tuples).action = "help" THEN [k |-> "exit", ns |-> ns]
    ELSE take_actions(Tail(tuples),
                      [ns EXCEPT !.config = get_values(Head(tuples).args),
                                 !.seen = TRUE])

Exit(code, reason) ==
    [kind |-> "exit", config |-> NoValue, code |-> code, reason |-> reason]
Returned(value) ==
    [kind |-> "namespace", config |-> value, code |-> 0, reason |-> ""]
Pending ==
    [kind |-> "pending", config |-> NoValue, code |-> 0, reason |-> ""]

MinOf(S) == CHOOSE x \in S : \A y \in S : x <= y

\* the 'while start_index <= max_option_string_index' loop of
\* _parse_known_args (the parser has no positionals)
RECURSIVE parse_loop(_, _, _, _, _)
parse_loop(args, cls, start_index, ns, extras) ==
    LET later == {i \in start_index..Len(args) : cls[i].k = "O"}
    IN  IF later = {}
        THEN [k |-> "done", ns |-> ns, reason |-> "",
              extras |-> extras \o SubSeq(args, start_index, Len(args))]
        ELSE LET next == MinOf(later)
                 extras1 == extras \o SubSeq(args, start_index, next - 1)
                 r == consume_optional(args, cls, next)
             IN  IF r.k = "extra"
                 THEN parse_loop(args, cls, r.stop, ns,
                                 Append(extras1, args[next]))
                 ELSE IF r.k = "error"
                 THEN [k |-> "error", ns |-> ns, reason |-> r.reason,
                       extras |-> extras1]
                 ELSE LET t == take_actions(r.tuples, ns)
                      IN  IF t.k = "exit"
                          THEN [k |-> "help", ns |-> ns, reason |-> "",
                                extras |-> extras1]
                          ELSE parse_loop(args, cls, r.stop, t.ns, extras1)

\* the conversion of a string default that was not given on the command line
convert_default(ns) ==
    IF ~ns.seen /\ ns.config.t = "str"
    THEN [ns EXCEPT !.config = get_value(ns.config.s)]
    ELSE ns

parse_args_known_only(args, default) ==
    LET cls == classify(args)
    IN  IF \E i \in 1..Len(args) : cls[i].k = "ambiguous"
        THEN Exit(2, "ambiguous option")
        ELSE LET r == parse_loop(args, cls, 1,
                                 [config |-> default, seen |-> FALSE], <<>>)
             IN  IF r.k = "error" THEN Exit(2, r.reason)
                 ELSE IF r.k = "help" THEN Exit(0, "help")
                 ELSE Returned(convert_default(r.ns).config)

\* parse_args: parse_known_args, then the 'unrecognized arguments' error
parse_args(args, default) ==
    LET cls == classify(args)
    IN  IF \E i \in 1..Len(args) : cls[i].k = "ambiguous"
        THEN Exit(2, "ambiguous option")
        ELSE LET r == parse_loop(args, cls, 1,
                                 [config |-> default, seen |-> FALSE], <<>>)
             IN  IF r.k = "error" THEN Exit(2, r.reason)
                 ELSE IF r.k = "help" THEN Exit(0, "help")
                 ELSE IF r.extras # <<>>
                      THEN Exit(2, "unrecognized arguments")
                      ELSE Returned(convert_default(r.ns).config)

config_parser(args, default) == parse_args(args, default)

-----------------------------------------------------------------------------
(* The inputs of config_parser that are explored *)

TOK_empty     == <<>>
TOK_dash      == <<"-">>
TOK_p         == <<"p">>
TOK_x         == <<"-", "x">>
TOK_xx        == <<"-", "-", "x">>
TOK_neg       == <<"-", "1">>
TOK_neg_nl    == <<"-", "1", "\n">>
TOK_neg_u     == <<"-", "U+0661">>
TOK_dec_u     == <<"-", ".", "U+FF13">>
TOK_space     == <<"-", "p", " ", "q">>
TOK_conf      == <<"-", "-", "c", "o", "n", "f">>
TOK_cp        == <<"-", "c", "p">>
TOK_config_eq == <<"-", "-", "c", "o", "n", "f", "i", "g", "=", "p">>
TOK_c_eq_dd   == <<"-", "c", "=", "-", "-">>
TOK_eq        == <<"-", "-", "=", "p">>
TOK_hc        == <<"-", "h", "c">>
TOK_hx        == <<"-", "h", "x">>

Tokens ==
    {TOK_empty, TOK_dash, TOK_p, TOK_x, TOK_xx, TOK_neg, TOK_neg_nl, TOK_neg_u,
     TOK_dec_u, TOK_space,
     TOK_conf, TOK_cp, TOK_config_eq, TOK_c_eq_dd, TOK_eq, TOK_hc, TOK_hx,
     OPT_c, OPT_config, OPT_h, OPT_help, DoubleDash}

ArgLists == UNION {[1..n -> Tokens] : n \in 0..MaxArgs}

\* default_config: a str, or the pathlib.Path the workflow scripts pass
Defaults == {StrValue(<<"d">>), StrValue(TOK_x), PathValue(<<"d">>)}

-----------------------------------------------------------------------------
(* The logging module, as far as setup_logger uses it *)

\* utils.__name__ when the module is imported
LoggerName == "brainglobe_workflows.utils"

\* logging.NOTSET, the level of a logger just created, and the levels
\* logging.DEBUG, logging.INFO, logging.WARNING
NOTSET  == 0
DEBUG   == 10
INFO    == 20
WARNING == 30

NoLoggers == [n \in {} |-> 0]

console_handler_unnamed(n) ==
    [id |-> n, name |-> "", stream |-> "stdout",
     format |-> "%(name)s %(levelname)s: %(message)s"]

\* logging.StreamHandler(sys.stdout) with its formatter and name; n is the
\* identity of the new object (handlers are compared by identity)
console_handler(n) ==
    [id |-> n, name |-> "console_handler", stream |-> "stdout",
     format |-> "%(name)s %(levelname)s: %(message)s"]

\* logging.getLogger(name): the logger of that name, created on first use
getLogger(dict, name) ==
    IF name \in DOMAIN dict THEN dict
    ELSE [n \in (DOMAIN dict) \cup {name} |->
            IF n \in DOMAIN dict THEN dict[n]
            ELSE [level |-> NOTSET, handlers |-> <<>>]]

\* Logger.setLevel
setLevel(dict, name, level) == [dict EXCEPT ![name].level = level]

\* Logger.addHandler: appended unless that handler object is already there
addHandler(dict, name, hdlr) ==
    IF \E i \in 1..Len(dict[name].handlers) : dict[name].handlers[i] = hdlr
    THEN dict
    ELSE [dict EXCEPT ![name].handlers = Append(@, hdlr)]

\* setup_logger(): the registry after the n-th handler object was made
setup_logger(dict, n) ==
    addHandler(setLevel(getLogger(dict, LoggerName), LoggerName, DEBUG),
               LoggerName, console_handler(n))

SetupLogger ==
    /\ Len(returned) < MaxSetupCalls
    /\ loggerDict' = setup_logger(loggerDict, Len(returned) + 1)
    /\ returned' = Append(returned, LoggerName)
    /\ UNCHANGED <<root, cliVars, runVars>>

\* logging.getLogger(custom_logger_name), as the tests look the logger up
GetLoggerByName ==
    /\ LoggerName \notin DOMAIN loggerDict
    /\ loggerDict' = getLogger(loggerDict, LoggerName)
    /\ UNCHANGED <<returned, root, cliVars, runVars>>

-----------------------------------------------------------------------------
(* What a run leaves behind: log records and the calls of the stages *)

LogRecord(level, msg, n) ==
    [ev |-> "log", stage |-> "", level |-> level, msg |-> msg, n |-> n,
     error |-> ""]
CallEvent(stage) ==
    [ev |-> "call", stage |-> stage, level |-> "", msg |-> "", n |-> 0,
     error |-> ""]
ReturnEvent(stage, n) ==
    [ev |-> "return", stage |-> stage, level |-> "", msg |-> "", n |-> n,
     error |-> ""]
RaiseEvent(stage, e) ==
    [ev |-> "raise", stage |-> stage, level |-> "", msg |-> "", n |-> 0,
     error |-> e]

-----------------------------------------------------------------------------
(* The root logger, which logging.info and logging.warning write to *)

\* the root logger of a fresh interpreter: level WARNING, no handler
fresh_root == [level |-> WARNING, handlers |-> <<>>]

\* the number of a level name
levelno(levelname) ==
    CASE levelname = "DEBUG"   -> DEBUG
      [] levelname = "INFO"    -> INFO
      [] levelname = "WARNING" -> WARNING

\* the handler logging.basicConfig() makes: a StreamHandler on sys.stderr
\* with BASIC_FORMAT
basic_handler ==
    [id |-> 0, name |-> "", stream |-> "stderr",
     format |-> "%(levelname)s:%(name)s:%(message)s"]

\* logging.basicConfig() without arguments: a handler for a root logger that
\* has none; the level stays
basicConfig(r) ==
    IF Len(r.handlers) = 0 THEN [r EXCEPT !.handlers = <<basic_handler>>]
    ELSE r

\* Logger.getEffectiveLevel for the root logger, which has no parent
getEffectiveLevel(r) == IF r.level # NOTSET THEN r.level ELSE NOTSET

\* Logger.isEnabledFor (manager.disable is 0, its initial value: nothing
\* calls logging.disable)
isEnabledFor(r, level) == level >= getEffectiveLevel(r)

\* the records emitted so far, after the root logger was given one more
emit(r, records, record) ==
    IF isEnabledFor(r, levelno(record.level)) THEN Append(records, record)
    ELSE records

-----------------------------------------------------------------------------
(* Files, configurations and the Config Loader (specification section 4.1) *)

Absent == -1

SignalFile(i)     == [role |-> "signal", n |-> i]
BackgroundFile(i) == [role |-> "background", n |-> i]
OutputFile(r)     == [role |-> r, n |-> 0]

InputFiles ==
    {SignalFile(i) : i \in 1..MaxSignalFiles}
        \cup {BackgroundFile(i) : i \in 1..MaxBackgroundFiles}

OutputRoles ==
    {"detected_cells", "downsampled_points", "atlas_points", "all_points_csv",
     "summary_csv", "brainrender_points"}

AllFiles == InputFiles \cup {OutputFile(r) : r \in OutputRoles}

OutputDir == "output_dir"

Exists(f) == fs[f] # Absent

\* what a load works on: the JSON document (well-formed or not, with or
\* without an unknown key), the files its signal and background directories
\* resolve to, and whether the output location can be created
\* and, for the log line of the load: whether the load is made with logging
\* on, whether the document is the default one, and whether the input data
\* had to be fetched
ConfigInputs ==
    [json : {"ok", "malformed", "unknown_key"},
     signal : {[i \in 1..n |-> SignalFile(i)] : n \in 0..MaxSignalFiles},
     background : {[i \in 1..n |-> BackgroundFile(i)] : n \in 0..MaxBackgroundFiles},
     writable : BOOLEAN,
     log_on : BOOLEAN,
     is_default : BOOLEAN,
     fetched : BOOLEAN]

NoConfig == [loaded |-> FALSE, signal |-> <<>>, background |-> <<>>,
             output_path |-> "", paths |-> [r \in {} |-> 0]]

\* the derived fields of a configuration object
derive_config(in) ==
    [loaded |-> TRUE, signal |-> in.signal, background |-> in.background,
     output_path |-> OutputDir,
     paths |-> [r \in OutputRoles |-> OutputFile(r)]]

\* the input files a configuration document refers to
ListedFiles(in) ==
    {in.signal[i] : i \in 1..Len(in.signal)}
        \cup {in.background[j] : j \in 1..Len(in.background)}

MissingInput(in, files) ==
    \/ (\E i \in 1..Len(in.signal) : files[in.signal[i]] = Absent)
    \/ (\E j \in 1..Len(in.background) : files[in.background[j]] = Absent)

read_config_mkdir_first(in, files) ==
    IF in.json = "malformed" THEN [error |-> "parse error", mkdir |-> FALSE]
    ELSE IF in.json = "unknown_key" THEN [error |-> "schema error", mkdir |-> FALSE]
    ELSE IF ~in.writable THEN [error |-> "filesystem error", mkdir |-> FALSE]
    ELSE IF MissingInput(in, files)
         THEN [error |-> "missing-data error", mkdir |-> TRUE]
    ELSE [error |-> "", mkdir |-> TRUE]

read_config_unvalidated(in, files) ==
    IF in.json = "malformed" THEN [error |-> "parse error", mkdir |-> FALSE]
    ELSE IF in.json = "unknown_key" THEN [error |-> "schema error", mkdir |-> FALSE]
    ELSE IF ~in.writable THEN [error |-> "filesystem error", mkdir |-> FALSE]
    ELSE [error |-> "", mkdir |-> TRUE]

\* the outcome of a load: parse, schema check, validation of the input files,
\* then creation of the output directory
read_config(in, files) ==
    IF in.json = "malformed" THEN [error |-> "parse error", mkdir |-> FALSE]
    ELSE IF in.json = "unknown_key" THEN [error |-> "schema error", mkdir |-> FALSE]
    ELSE IF MissingInput(in, files)
         THEN [error |-> "missing-data error", mkdir |-> FALSE]
    ELSE IF ~in.writable THEN [error |-> "filesystem error", mkdir |-> FALSE]
    ELSE [error |-> "", mkdir |-> TRUE]

\* the informational line of a load made with logging on: which document
\* was used, and whether the input data was fetched or found locally
config_log_line(in) ==
    LogRecord("INFO",
              CASE in.is_default /\ in.fetched ->
                       "Using default config file; input data fetched"
                [] in.is_default /\ ~in.fetched ->
                       "Using default config file; input data found locally"
                [] ~in.is_default /\ in.fetched ->
                       "Using input config file; input data fetched"
                [] OTHER ->
                       "Using input config file; input data found locally",
              0)

ReadConfig ==
    /\ pc = "idle"
    /\ LET r == read_config(cfg_in, fs)
       IN  /\ err' = r.error
           /\ pc' = IF r.error = "" THEN "configured" ELSE "failed"
           /\ config' = IF r.error = "" THEN derive_config(cfg_in) ELSE config
           /\ dirs' = IF r.mkdir THEN dirs \cup {OutputDir} ELSE dirs
           /\ trace' = IF r.error = "" /\ cfg_in.log_on
                       THEN Append(trace, config_log_line(cfg_in))
                       ELSE trace
    /\ UNCHANGED <<cfg_in, fs, cells, points, transformed_cells,
                   points_out_of_bounds, invocations, cliVars, logVars>>

-----------------------------------------------------------------------------
(* The stages of the workflow *)

Stages == <<"detect", "transform", "summarise", "export">>
StageSet == {Stages[i] : i \in 1..Len(Stages)}

\* the errors an external stage can raise
StageErrors == {"ValueError", "OSError"}

\* the cell records the detection stage can return
CellSet == {[x |-> 1, y |-> 2, z |-> 3], [x |-> 4, y |-> 5, z |-> 6]}
Detections == UNION {[1..n -> CellSet] : n \in 0..MaxCells}

\* the output files each stage is given to write
stage_outputs(stage) ==
    CASE stage = "detect"    -> {"detected_cells"}
      [] stage = "transform" -> {"downsampled_points", "atlas_points"}
      [] stage = "summarise" -> {"all_points_csv", "summary_csv"}
      [] stage = "export"    -> {"brainrender_points"}

\* a table written by a stage: one header line and one line per row
TableSize(rows) == 1 + Len(rows)

WriteFiles(files, roles, rows) ==
    [f \in AllFiles |->
        IF \E r \in roles : f = config.paths[r] THEN TableSize(rows)
        ELSE files[f]]

-----------------------------------------------------------------------------
(* Detect (specification section 4.2, stage 1) *)

detect_checkpoint == LogRecord("INFO", "Detecting cells", 0)

detect_args == [signal |-> config.signal, background |-> config.background]

\* the stage logs its checkpoint
DetectLog ==
    /\ pc = "configured"
    /\ trace' = Append(trace, detect_checkpoint)
    /\ pc' = "call_detect"
    /\ UNCHANGED <<cfg_in, config, dirs, fs, err, cells, points,
                   transformed_cells, points_out_of_bounds, invocations,
                   cliVars, logVars>>

DetectCall ==
    /\ pc = "call_detect"
    /\ invocations' = [invocations EXCEPT !["detect"] = Append(@, detect_args)]
    /\ trace' = Append(trace, CallEvent("detect"))
    /\ pc' = "in_detect"
    /\ UNCHANGED <<cfg_in, config, dirs, fs, err, cells, points,
                   transformed_cells, points_out_of_bounds, cliVars, logVars>>

DetectReturn ==
    /\ pc = "in_detect"
    /\ \E cs \in Detections :
          /\ cells' = cs
          /\ fs' = WriteFiles(fs, stage_outputs("detect"), cs)
    /\ trace' = Append(trace, ReturnEvent("detect", 0))
    /\ pc' = "run_entry"
    /\ UNCHANGED <<cfg_in, config, dirs, err, points, transformed_cells,
                   points_out_of_bounds, invocations, cliVars, logVars>>

DetectRaise ==
    /\ pc = "in_detect"
    /\ \E e \in StageErrors :
          /\ err' = e
          /\ trace' = Append(trace, RaiseEvent("detect", e))
    /\ pc' = "failed"
    /\ UNCHANGED <<cfg_in, config, dirs, fs, cells, points, transformed_cells,
                   points_out_of_bounds, invocations, cliVars, logVars>>

-----------------------------------------------------------------------------
(* brainmapper.analyse.run: Transform, Summarise, Export *)

\* the statements of run() after the cell array is built, in program order
run_order ==
    <<"log_transform", "call_transform", "log_out_of_bounds",
      "log_summarise", "call_summarise", "log_export", "call_export">>

\* where control goes when the statement at label is finished
after(label) ==
    LET i == CHOOSE k \in 1..Len(run_order) : run_order[k] = label
    IN  IF i = Len(run_order) THEN "done" ELSE run_order[i + 1]

on_raise_swallowed(label, e) == [pc |-> after(label), err |-> ""]

\* an exception raised by a stage meets no handler in run(): it ends the run
on_raise(label, e) == [pc |-> "failed", err |-> e]

deformation_field_paths ==
    <<"deformation_field_0", "deformation_field_1", "deformation_field_2">>

\* cell_list.append([cell.z, cell.y, cell.x]) for every cell; np.array(cell_list)
cell_array(cs) == [i \in 1..Len(cs) |-> <<cs[i].z, cs[i].y, cs[i].x>>]

\* the atlas handed to run(); only resolution[0] is read
atlas == [name |-> "atlas", resolution |-> <<"res_0", "res_1", "res_2">>]

transform_checkpoint == LogRecord("INFO", "Transforming points to atlas space", 0)
summarise_checkpoint == LogRecord("INFO", "Summarising cell positions", 0)
export_checkpoint    == LogRecord("INFO", "Exporting data to brainrender", 0)

out_of_bounds_warning_all_points ==
    LogRecord("WARNING", "points ignored due to falling outside of atlas",
              Len(points))

out_of_bounds_warning ==
    LogRecord("WARNING", "points ignored due to falling outside of atlas",
              Len(points_out_of_bounds))

transform_args ==
    [points |-> points, signal_plane |-> config.signal[1],
     orientation |-> "orientation", voxel_sizes |-> "voxel_sizes",
     downsampled_space |-> "downsampled_space", atlas |-> atlas.name,
     deformation_field_paths |-> deformation_field_paths,
     downsampled_points_path |-> config.paths["downsampled_points"],
     atlas_points_path |-> config.paths["atlas_points"]]

summarise_args_untransformed ==
    [points |-> points, transformed |-> points, atlas |-> atlas.name,
     volume_csv_path |-> "volume_csv_path",
     all_points_csv |-> config.paths["all_points_csv"],
     summary_csv |-> config.paths["summary_csv"]]

summarise_args ==
    [points |-> points, transformed |-> transformed_cells, atlas |-> atlas.name,
     volume_csv_path |-> "volume_csv_path",
     all_points_csv |-> config.paths["all_points_csv"],
     summary_csv |-> config.paths["summary_csv"]]

export_args ==
    [points |-> transformed_cells, resolution |-> atlas.resolution[1],
     path |-> config.paths["brainrender_points"]]

\* the transform stage's result for the points whose indices are in out:
\* the others warped into atlas space, and the ones in out as they were
Warp(p) == [space |-> "atlas", from |-> p]
InBounds(pts, out) ==
    LET F[i \in 0..Len(pts)] ==
            IF i = 0 THEN <<>>
            ELSE IF i \in out THEN F[i - 1] ELSE Append(F[i - 1], Warp(pts[i]))
    IN  F[Len(pts)]
OutOfBounds(pts, out) ==
    LET F[i \in 0..Len(pts)] ==
            IF i = 0 THEN <<>>
            ELSE IF i \in out THEN Append(F[i - 1], pts[i]) ELSE F[i - 1]
    IN  F[Len(pts)]

RunEntry ==
    /\ pc = "run_entry"
    /\ points' = cell_array(cells)
    /\ pc' = run_order[1]
    /\ UNCHANGED <<cfg_in, config, dirs, fs, err, cells, transformed_cells,
                   points_out_of_bounds, invocations, trace, cliVars, logVars>>

\* a logging.info / logging.warning statement of run(): basicConfig() when
\* the root logger has no handler, then the record goes to the root logger,
\* which emits it if it is enabled for the record's level
LogStep(label, record) ==
    /\ pc = label
    /\ root' = basicConfig(root)
    /\ trace' = emit(root', trace, record)
    /\ pc' = after(label)
    /\ UNCHANGED <<cfg_in, config, dirs, fs, err, cells, points,
                   transformed_cells, points_out_of_bounds, invocations,
                   cliVars, loggerDict, returned>>

\* control enters an external stage with the arguments run() built
CallStep(label, stage, stage_args, inside) ==
    /\ pc = label
    /\ invocations' = [invocations EXCEPT ![stage] = Append(@, stage_args)]
    /\ trace' = Append(trace, CallEvent(stage))
    /\ pc' = inside
    /\ UNCHANGED <<cfg_in, config, dirs, fs, err, cells, points,
                   transformed_cells, points_out_of_bounds, cliVars, logVars>>

\* an external stage raises, having written any part of its output files
RaiseStep(label, stage, inside, rows) ==
    /\ pc = inside
    /\ \E e \in StageErrors, written \in SUBSET stage_outputs(stage) :
          /\ fs' = WriteFiles(fs, written, rows)
          /\ trace' = Append(trace, RaiseEvent(stage, e))
          /\ pc' = on_raise(label, e).pc
          /\ err' = on_raise(label, e).err
    /\ UNCHANGED <<cfg_in, config, dirs, cells, points, transformed_cells,
                   points_out_of_bounds, invocations, cliVars, logVars>>

LogTransform == LogStep("log_transform", transform_checkpoint)

TransformCall ==
    /\ config.signal # <<>>
    /\ CallStep("call_transform", "transform", transform_args, "in_transform")

\* args.signal_planes_paths[0] on an empty list
TransformIndexError ==
    /\ pc = "call_transform"
    /\ config.signal = <<>>
    /\ pc' = "failed"
    /\ err' = "IndexError"
    /\ UNCHANGED <<cfg_in, config, dirs, fs, cells, points, transformed_cells,
                   points_out_of_bounds, invocations, trace, cliVars, logVars>>

TransformReturn ==
    /\ pc = "in_transform"
    /\ \E out \in SUBSET (1..Len(points)) :
          /\ transformed_cells' = InBounds(points, out)
          /\ points_out_of_bounds' = OutOfBounds(points, out)
          /\ trace' = Append(trace, ReturnEvent("transform", Cardinality(out)))
    /\ fs' = WriteFiles(fs, stage_outputs("transform"), points)
    /\ pc' = after("call_transform")
    /\ UNCHANGED <<cfg_in, config, dirs, err, cells, points, invocations,
                   cliVars, logVars>>

TransformRaise ==
    RaiseStep("call_transform", "transform", "in_transform", points)

LogOutOfBounds == LogStep("log_out_of_bounds", out_of_bounds_warning)

LogSummarise == LogStep("log_summarise", summarise_checkpoint)

SummariseCall ==
    CallStep("call_summarise", "summarise", summarise_args, "in_summarise")

SummariseReturn ==
    /\ pc = "in_summarise"
    /\ fs' = WriteFiles(fs, stage_outputs("summarise"), transformed_cells)
    /\ trace' = Append(trace, ReturnEvent("summarise", 0))
    /\ pc' = after("call_summarise")
    /\ UNCHANGED <<cfg_in, config, dirs, err, cells, points, transformed_cells,
                   points_out_of_bounds, invocations, cliVars, logVars>>

SummariseRaise ==
    RaiseStep("call_summarise", "summarise", "in_summarise", transformed_cells)

LogExport == LogStep("log_export", export_checkpoint)

ExportCall == CallStep("call_export", "export", export_args, "in_export")

ExportReturn ==
    /\ pc = "in_export"
    /\ fs' = WriteFiles(fs, stage_outputs("export"), transformed_cells)
    /\ trace' = Append(trace, ReturnEvent("export", 0))
    /\ pc' = after("call_export")
    /\ UNCHANGED <<cfg_in, config, dirs, err, cells, points, transformed_cells,
                   points_out_of_bounds, invocations, cliVars, logVars>>

ExportRaise ==
    RaiseStep("call_export", "export", "in_export", transformed_cells)

-----------------------------------------------------------------------------
(* The workflow process *)

CliIdle ==
    /\ argv = <<>>
    /\ default_config = StrValue(<<"d">>)
    /\ cli = Pending

LogIdle ==
    /\ loggerDict = NoLoggers
    /\ returned = <<>>

RunIdle ==
    /\ config = NoConfig
    /\ dirs = {}
    /\ pc = "idle"
    /\ err = ""
    /\ cells = <<>>
    /\ points = <<>>
    /\ transformed_cells = <<>>
    /\ points_out_of_bounds = <<>>
    /\ invocations = [s \in StageSet |-> <<>>]
    /\ trace = <<>>

\* a fresh process: the root logger as the interpreter makes it, no other
\* logger yet, nothing loaded; the configuration document and which of the
\* files it refers to exist are the run's inputs
Init ==
    /\ CliIdle
    /\ LogIdle
    /\ root = fresh_root
    /\ RunIdle
    /\ cfg_in \in ConfigInputs
    /\ \E present \in SUBSET ListedFiles(cfg_in) :
          fs = [f \in AllFiles |-> IF f \in present THEN 1 ELSE Absent]

Next ==
    \/ SetupLogger
    \/ GetLoggerByName
    \/ ReadConfig
    \/ DetectLog
    \/ DetectCall
    \/ DetectReturn
    \/ DetectRaise
    \/ RunEntry
    \/ LogTransform
    \/ TransformCall
    \/ TransformIndexError
    \/ TransformReturn
    \/ TransformRaise
    \/ LogOutOfBounds
    \/ LogSummarise
    \/ SummariseCall
    \/ SummariseReturn
    \/ SummariseRaise
    \/ LogExport
    \/ ExportCall
    \/ ExportReturn
    \/ ExportRaise

Spec == Init /\ [][Next]_vars

-----------------------------------------------------------------------------
(* config_parser as a state machine: one call on inputs drawn in CliInit *)

CliInit ==
    /\ argv \in ArgLists
    /\ default_config \in Defaults
    /\ cli = Pending
    /\ LogIdle
    /\ root = fresh_root
    /\ RunIdle
    /\ cfg_in = [json |-> "ok", signal |-> <<>>, background |-> <<>>,
                 writable |-> TRUE, log_on |-> FALSE, is_default |-> TRUE,
                 fetched |-> FALSE]
    /\ fs = [f \in AllFiles |-> Absent]

ConfigParser ==
    /\ cli.kind = "pending"
    /\ cli' = config_parser(argv, default_config)
    /\ UNCHANGED <<argv, default_config, logVars, runVars>>

CliNext == ConfigParser

SpecCli == CliInit /\ [][CliNext]_vars

-----------------------------------------------------------------------------
(* Properties of config_parser, for specification SpecCli *)

IsConfigOption(tok) == tok \in {OPT_c, OPT_config}

\* a path that does not begin with the option prefix character
NotDashLed(p) == p = <<>> \/ p[1] # "-"

\* argparse reads the token at position i as an option
ReadAsOption(i) == classify(argv)[i].k \in {"O", "ambiguous"}

\* ... as the help option (-h, --help, an abbreviation, or -h run together
\* with more characters)
IsHelpFlag(i) == classify(argv)[i].k = "O" /\ classify(argv)[i].action = "help"

\* ... as an option the parser does not define
IsUnknownFlag(i) ==
    \/ classify(argv)[i].k = "ambiguous"
    \/ classify(argv)[i].k = "O" /\ classify(argv)[i].action = "none"

\* ... as an option other than the configuration-file option
IsOtherFlag(i) == ReadAsOption(i) /\ classify(argv)[i].action # "config"

\* C1 as stated: an empty argument list gives the default unchanged, and
\* `-c p` / `--config p` give p for every path p, whatever the default.
C1_AnyPathResolves ==
    cli.kind # "pending" =>
        /\ argv = <<>> => cli = Returned(default_config)
        /\ (Len(argv) = 2 /\ IsConfigOption(argv[1]))
               => cli = Returned(StrValue(argv[2]))

\* C1 amended: an empty argument list gives the default unchanged, and
\* `-c p` / `--config p` give p for every path p that does not begin with
\* '-', whatever the default.
C1_ConfigResolution ==
    cli.kind # "pending" =>
        /\ argv = <<>> => cli = Returned(default_config)
        /\ (Len(argv) = 2 /\ IsConfigOption(argv[1]) /\ NotDashLed(argv[2]))
               => cli = Returned(StrValue(argv[2]))

C1_Witness ==
    /\ cli.kind = "namespace"
    /\ argv = <<OPT_config, TOK_p>>
    /\ default_config = PathValue(<<"d">>)

\* C2 as stated: every argument list containing a flag other than
\* -c/--config ends in a usage error with a non-zero exit and no namespace.
C2_OnlyConfigFlag ==
    (cli.kind # "pending" /\ \E i \in 1..Len(argv) : IsOtherFlag(i))
        => (cli.kind = "exit" /\ cli.code # 0)

\* C2 amended: besides -c/--config the parser defines argparse's -h/--help,
\* and only the help flag ends the call with exit status 0; every argument
\* list that contains a flag the parser does not define, and no help flag,
\* ends in a usage error with exit status 2 and no namespace.
C2_UnknownFlagUsageError ==
    cli.kind # "pending" =>
        /\ ((\E i \in 1..Len(argv) : IsUnknownFlag(i))
              /\ ~(\E i \in 1..Len(argv) : IsHelpFlag(i)))
               => (cli.kind = "exit" /\ cli.code = 2)
        /\ (cli.kind = "exit" /\ cli.code = 0)
               => (\E i \in 1..Len(argv) : IsHelpFlag(i))

C2_Witness ==
    /\ cli.kind = "exit"
    /\ cli.code = 2
    /\ cli.reason = "unrecognized arguments"
    /\ argv = <<OPT_c, TOK_p, TOK_x>>

-----------------------------------------------------------------------------
(* Properties of the workflow process, for specification Spec *)

TraceIdx == 1..Len(trace)

IsCall(e) == e.ev = "call"

checkpoint(stage) ==
    CASE stage = "detect"    -> detect_checkpoint
      [] stage = "transform" -> transform_checkpoint
      [] stage = "summarise" -> summarise_checkpoint
      [] stage = "export"    -> export_checkpoint

StageNumber(stage) == CHOOSE k \in 1..Len(Stages) : Stages[k] = stage

AllInputsExist ==
    /\ \A i \in 1..Len(config.signal) : Exists(config.signal[i])
    /\ \A i \in 1..Len(config.background) : Exists(config.background[i])

OutOfBoundsRecord(n) ==
    LogRecord("WARNING", "points ignored due to falling outside of atlas", n)

IsTransformReturn(e) == e.ev = "return" /\ e.stage = "transform"

\* what follows Transform's return of n out-of-bounds points in the records:
\* the warning if the root logger lets WARNING through, Summarise's checkpoint
\* if it lets INFO through, then the call of Summarise
AfterTransformReturn(n) ==
    (IF isEnabledFor(root, WARNING) THEN <<OutOfBoundsRecord(n)>> ELSE <<>>)
        \o (IF isEnabledFor(root, INFO) THEN <<summarise_checkpoint>> ELSE <<>>)
        \o <<CallEvent("summarise")>>

\* C4: when Transform returns n >= 1 out-of-bounds points, the next record is
\* one warning carrying exactly n, logged before Summarise is called and the
\* only warning of the run; the run goes on to Summarise and Export, fails
\* afterwards only if one of them raises, and a completed run has called both.
C4_OutOfBoundsWarning ==
    \A i \in TraceIdx :
        (IsTransformReturn(trace[i]) /\ trace[i].n >= 1)
        => /\ Len(points_out_of_bounds) = trace[i].n
           /\ i = Len(trace) => pc = "log_out_of_bounds"
           /\ i < Len(trace) => trace[i + 1] = OutOfBoundsRecord(trace[i].n)
           /\ \A k \in 1..Len(AfterTransformReturn(trace[i].n)) :
                 i + k <= Len(trace)
                     => trace[i + k] = AfterTransformReturn(trace[i].n)[k]
           /\ pc # "log_out_of_bounds" =>
                 Cardinality({j \in TraceIdx : trace[j].level = "WARNING"}) = 1
           /\ pc = "failed" =>
                 /\ trace[Len(trace)].ev = "raise"
                 /\ trace[Len(trace)].stage \in {"summarise", "export"}
                 /\ err = trace[Len(trace)].error
           /\ pc = "done" =>
                 /\ Len(invocations["summarise"]) = 1
                 /\ Len(invocations["export"]) = 1

\* a completed run with every point out of bounds
C4_Witness ==
    /\ pc = "done"
    /\ Len(points_out_of_bounds) = MaxCells
    /\ \E j \in TraceIdx : trace[j] = OutOfBoundsRecord(MaxCells)
    /\ \E j \in TraceIdx : trace[j] = ReturnEvent("export", 0)

\* C5: once a stage has raised, the run is over with that very error: the
\* raise is the last record (no later call, checkpoint or warning), the stage
\* was called once, and every file written by a stage that had returned is
\* still there.
C5_StageErrorEndsRun ==
    \A i \in TraceIdx :
        trace[i].ev = "raise"
        => /\ i = Len(trace)
           /\ pc = "failed"
           /\ err = trace[i].error
           /\ Len(invocations[trace[i].stage]) = 1
           /\ \A j \in 1..(i - 1) :
                 trace[j].ev = "return"
                 => \A r \in stage_outputs(trace[j].stage) :
                       Exists(config.paths[r])

C5_Witness ==
    /\ pc = "failed"
    /\ trace # <<>>
    /\ trace[Len(trace)] = RaiseEvent("export", "OSError")
    /\ Exists(config.paths["summary_csv"])
    /\ ~Exists(config.paths["brainrender_points"])

\* C6: every stage that is called has had its checkpoint logged before the
\* call and after the return of the stage before it, and the checkpoint of a
\* stage is logged at most once.
C6_CheckpointBeforeStage ==
    /\ \A i \in TraceIdx :
          IsCall(trace[i])
          => \E c \in 1..(i - 1) :
                /\ trace[c] = checkpoint(trace[i].stage)
                /\ (trace[i].stage # "detect"
                      => \E j \in 1..(c - 1) :
                            /\ trace[j].ev = "return"
                            /\ trace[j].stage =
                                   Stages[StageNumber(trace[i].stage) - 1])
    /\ \A s \in StageSet :
          Cardinality({i \in TraceIdx : trace[i] = checkpoint(s)}) <= 1

\* C7: a load of a configuration with a missing signal or background file
\* fails with the missing-data error, creates no output directory, returns
\* no configuration and starts no stage.
C7_MissingInputFailsLoad ==
    (pc # "idle" /\ cfg_in.json = "ok" /\ MissingInput(cfg_in, fs))
        => /\ pc = "failed"
           /\ err = "missing-data error"
           /\ dirs = {}
           /\ ~config.loaded
           /\ trace = <<>>

C7_Witness ==
    /\ pc = "failed"
    /\ err = "missing-data error"
    /\ cfg_in.writable
    /\ Exists(SignalFile(1))
    /\ ~Exists(BackgroundFile(1))

\* C8 as stated: a returned configuration has non-empty signal and background
\* lists, every listed file exists and the output directory exists.
C8_LoadedConfigNonEmpty ==
    config.loaded =>
        /\ config.signal # <<>>
        /\ config.background # <<>>
        /\ AllInputsExist
        /\ config.output_path \in dirs

\* C8 amended: a returned configuration lists exactly the files its
\* directories resolved to, every listed file exists and the output directory
\* exists (a list is empty when its directory holds no file).
C8_LoadedConfigValid ==
    config.loaded =>
        /\ config.signal = cfg_in.signal
        /\ config.background = cfg_in.background
        /\ AllInputsExist
        /\ config.output_path \in dirs

C8_Witness ==
    /\ config.loaded
    /\ pc = "configured"
    /\ Len(config.signal) = MaxSignalFiles
    /\ Len(config.background) = MaxBackgroundFiles

\* C9: after one or more calls, setup_logger has returned the logger named
\* after the utils module, at level DEBUG, with a handler, the first handler
\* being the one named "console_handler".
C9_LoggerConfigured ==
    \A i \in 1..Len(returned) :
        /\ returned[i] = LoggerName
        /\ returned[i] \in DOMAIN loggerDict
        /\ loggerDict[returned[i]].level = DEBUG
        /\ Len(loggerDict[returned[i]].handlers) >= 1
        /\ loggerDict[returned[i]].handlers[1].name = "console_handler"

C9_Witness ==
    /\ Len(returned) = MaxSetupCalls
    /\ Len(loggerDict[LoggerName].handlers) = MaxSetupCalls

\* C10: however often setup_logger is called, every call returns the same
\* logger and that logger carries exactly one console handler.
C10_SingleConsoleHandler ==
    \A i \in 1..Len(returned) :
        /\ returned[i] = returned[1]
        /\ Len(loggerDict[returned[i]].handlers) = 1

=============================================================================
